---- MODULE Spec2Model ----
(***************************************************************************)
(* Word clock firmware (src/src/main.cpp): the time-to-word renderer       *)
(* displayTime, the WORDS / WORD_LENGTHS catalog it paints from, the boot  *)
(* progress frames of setup(), and the LED buffer they share.              *)
(***************************************************************************)
EXTENDS Integers, Sequences, FiniteSets, TLC

(* ------------------------------------------------------------------ *)
(* Bounds                                                             *)
(* ------------------------------------------------------------------ *)

\* The clock takes the values 0, 60, 120, ..., 60 * MaxTick seconds
\* (1439 = the last minute of the first day) and wraps after the last one.
MaxTick == 1439

\* The local time at power-on is minute BootTick of the day (1437 = 23:57).
BootTick == 1437

\* loop() is followed while millis() stays at or below MaxMillis.
MaxMillis == 14000

\* The renderer is also driven with hours up to MaxRawHour and minutes up to
\* MaxRawMinute, values past the ranges of hour() and minute().
MaxRawHour == 25
MaxRawMinute == 66

(* ------------------------------------------------------------------ *)
(* Program constants                                                  *)
(* ------------------------------------------------------------------ *)

NUM_LEDS == 64
LIGHT_SAMPLES == 10
BRIGHTNESS_CHECK_INTERVAL == 1000

\* Row numbers of the WORDS table, named after the comment of each row.
IT_IS == 0
HALF == 1
TEN_MIN == 2
QUARTER == 3
TWENTY == 4
FIVE_MIN == 5
MINUTES == 6
TO == 7
PAST == 8
ONE == 9
THREE == 10
TWO == 11
FOUR == 12
FIVE == 13
SIX == 14
SEVEN == 15
EIGHT == 16
NINE == 17
TEN == 18
ELEVEN == 19
TWELVE == 20
OCLOCK == 21

\* The initializer lists of const int WORDS[][8], row by row.
WordInitializers ==
    << <<63, 62>>,
       <<60, 59>>,
       <<57, 56>>,
       <<48, 49, 50, 51>>,
       <<52, 53, 54, 55>>,
       <<47, 46>>,
       <<45, 44, 43, 42>>,
       <<40>>,
       <<32, 33>>,
       <<35, 36>>,
       <<37, 38, 39>>,
       <<31, 30>>,
       <<28, 27>>,
       <<25, 24>>,
       <<16, 17>>,
       <<18, 19, 20>>,
       <<21, 22, 23>>,
       <<15, 14>>,
       <<13>>,
       <<10, 9, 8>>,
       <<0, 1, 2>>,
       <<4, 5, 6, 7>> >>

\* const int WORDS[][8]: every row has 8 entries, the ones the initializer
\* does not list are zero.
WordRows ==
    [w \in 1..Len(WordInitializers) |->
        [i \in 1..8 |-> IF i <= Len(WordInitializers[w])
                        THEN WordInitializers[w][i] ELSE 0]]

\* WORDS[w][i], zero-based as in the source.
WORDS == [w \in 0..21 |-> [i \in 0..7 |-> WordRows[w + 1][i + 1]]]

WordLengthRow == <<2, 2, 2, 4, 4, 2, 4, 1, 2, 2, 3, 2, 2, 2, 2, 3, 3, 2, 1, 3, 3, 4>>

\* Variant of WORD_LENGTHS: TO is given two LEDs.
WORD_LENGTHS_TO2 == [w \in 0..21 |-> IF w = 7 THEN 2 ELSE WordLengthRow[w + 1]]

\* WORD_LENGTHS[w], zero-based as in the source.
WORD_LENGTHS == [w \in 0..21 |-> WordLengthRow[w + 1]]

\* const int PROGRESS_NUMBERS[] of showProgress, zero-based.
PROGRESS_NUMBERS == [s \in 0..5 |-> <<9, 11, 10, 12, 13, 14>>[s + 1]]

(* ------------------------------------------------------------------ *)
(* State                                                              *)
(* ------------------------------------------------------------------ *)

VARIABLES
    leds,          \* CRGB leds[NUM_LEDS]: "Black" or "White" per LED
    lastHour,      \* static int lastHour of displayTime
    lastMinute,    \* static int lastMinute of displayTime
    op,            \* the operation that ran last
    localTime,     \* argument of the latest displayTime call, -1 before it
    arg,           \* <<hours, minutes>> as that call read them on lines 593-594
    rounded,       \* roundedMinutes of that call as computed on line 597
    hourWordIndex, \* hourWordIndex of that call, -1 when the switch was not reached
    ledWrites,     \* number of assignments to leds[] made by the last operation
    flushed,       \* whether the last operation called FastLED.show()
    wifi,          \* WiFi.status() == WL_CONNECTED
    ota,           \* ArduinoOTA: "off" (not set up), "idle", "busy" (update running)
    nowMillis,     \* millis() as last read
    lastUpdate,    \* unsigned long lastUpdate of getTime
    simulatedTime, \* time_t simulatedTime
    lastBrightnessCheck, \* unsigned long lastBrightnessCheck
    brightness,    \* FastLED brightness
    settings,      \* brightnessSettings
    location,      \* the location Australia.setLocation last accepted
    httpStatus,    \* status of the last response of /api/saveBrightness, 0 before
    millisBase,    \* history: millis() of the first getTime call of the current
                   \* run of calls without WiFi, -1 outside such a run
    simBase        \* history: simulatedTime returned by that call

\* The renderer: LED buffer, cache and the locals of the latest call.
renderVars == <<leds, lastHour, lastMinute, localTime, arg, rounded,
                hourWordIndex, ledWrites, flushed>>

\* The clock of getTime and loop.
clockVars == <<nowMillis, lastUpdate, simulatedTime, lastBrightnessCheck>>

\* Brightness and the web handler.
webVars == <<brightness, settings, location, httpStatus>>

vars == <<leds, lastHour, lastMinute, op, localTime, arg, rounded, hourWordIndex,
          ledWrites, flushed, wifi, ota, nowMillis, lastUpdate, simulatedTime,
          lastBrightnessCheck, brightness, settings, location, httpStatus,
          millisBase, simBase>>

(* ------------------------------------------------------------------ *)
(* LED buffer primitives                                              *)
(* ------------------------------------------------------------------ *)

\* Variant of FillSolidBlack: the buffer is not cleared.
FillSolidKeep(p) ==
    [leds |-> p.leds, writes |-> p.writes + NUM_LEDS]

\* A paint in progress: the buffer and the number of writes made so far.
\* fill_solid(leds, NUM_LEDS, CRGB::Black)
FillSolidBlack(p) ==
    [leds |-> [i \in 0..(NUM_LEDS - 1) |-> "Black"],
     writes |-> p.writes + NUM_LEDS]

\* for (int i = 0; i < WORD_LENGTHS[w]; i++) leds[WORDS[w][i]] = CRGB::White;
LightWord(p, w) ==
    [leds |-> [i \in 0..(NUM_LEDS - 1) |->
                  IF \E k \in 0..(WORD_LENGTHS[w] - 1) : WORDS[w][k] = i
                  THEN "White" ELSE p.leds[i]],
     writes |-> p.writes + WORD_LENGTHS[w]]

(* ------------------------------------------------------------------ *)
(* displayTime, step by step                                          *)
(* ------------------------------------------------------------------ *)

\* hour(localTime) and minute(localTime) of a time_t in seconds
hour(t) == (t \div 3600) % 24
minute(t) == (t \div 60) % 60

\* Variant of RoundToFive: rounds up to the next multiple of 5.
RoundToFiveUp(minutes) == ((minutes + 4) \div 5) * 5

\* Variant of RoundToFive: truncates instead of rounding to the nearest.
RoundToFiveTrunc(minutes) == (minutes \div 5) * 5

\* int roundedMinutes = ((minutes + 2) / 5) * 5;
RoundToFive(minutes) == ((minutes + 2) \div 5) * 5

\* Variant of Carry: the hour is not taken modulo 24.
CarryNoWrap(hours, roundedMinutes) ==
    IF roundedMinutes = 60
    THEN [hours |-> hours + 1, roundedMinutes |-> 0]
    ELSE [hours |-> hours, roundedMinutes |-> roundedMinutes]

\* if (roundedMinutes == 60) { roundedMinutes = 0; hours = (hours + 1) % 24; }
Carry(hours, roundedMinutes) ==
    IF roundedMinutes = 60
    THEN [hours |-> (hours + 1) % 24, roundedMinutes |-> 0]
    ELSE [hours |-> hours, roundedMinutes |-> roundedMinutes]

\* Variant of TimeChanged: && in place of ||.
TimeChangedBoth(hours, roundedMinutes, lh, lm) ==
    hours # lh /\ roundedMinutes # lm

\* Variant of TimeChanged: the minute is compared with lastHour.
TimeChangedTypo(hours, roundedMinutes, lh, lm) ==
    hours # lh \/ roundedMinutes # lh

\* if (hours != lastHour || roundedMinutes != lastMinute)
TimeChanged(hours, roundedMinutes, lh, lm) ==
    hours # lh \/ roundedMinutes # lm

\* Variant of Hour12: subtracts 12 from the afternoon hours, 0 stays 0.
Hour12NoZero(hours) ==
    IF hours > 12 THEN hours - 12 ELSE hours

\* hours = hours % 12; if (hours == 0) hours = 12;
Hour12(hours) ==
    LET h == hours % 12 IN IF h = 0 THEN 12 ELSE h

\* Variant of NextHourIfTo: the next hour without the wrap to 1.
NextHourIfToNoWrap(hours, roundedMinutes) ==
    IF roundedMinutes > 30 THEN hours + 1 ELSE hours

\* Variant of NextHourIfTo: the next hour from half past on.
NextHourIfToFrom30(hours, roundedMinutes) ==
    IF roundedMinutes >= 30
    THEN LET h == (hours % 12) + 1 IN IF h = 13 THEN 1 ELSE h
    ELSE hours

\* if (roundedMinutes > 30) { hours = (hours % 12) + 1; if (hours == 13) hours = 1; }
NextHourIfTo(hours, roundedMinutes) ==
    IF roundedMinutes > 30
    THEN LET h == (hours % 12) + 1 IN IF h = 13 THEN 1 ELSE h
    ELSE hours

\* Variant of PastOrTo: PAST only below 30.
PastOrToBelow30(p, roundedMinutes) ==
    IF roundedMinutes < 30
    THEN [p |-> LightWord(p, 8), roundedMinutes |-> roundedMinutes]
    ELSE [p |-> LightWord(p, 7), roundedMinutes |-> 60 - roundedMinutes]

\* The PAST / TO word; the TO branch overwrites roundedMinutes.
PastOrTo(p, roundedMinutes) ==
    IF roundedMinutes <= 30
    THEN [p |-> LightWord(p, 8), roundedMinutes |-> roundedMinutes]
    ELSE [p |-> LightWord(p, 7), roundedMinutes |-> 60 - roundedMinutes]

\* Variant of MinuteWords: 25 lights TWENTY without FIVE.
MinuteWordsNoFive(p, roundedMinutes) ==
    IF roundedMinutes = 5 THEN LightWord(p, 5)
    ELSE IF roundedMinutes = 10 THEN LightWord(p, 2)
    ELSE IF roundedMinutes = 15 THEN LightWord(p, 3)
    ELSE IF roundedMinutes = 20 THEN LightWord(p, 4)
    ELSE IF roundedMinutes = 25 THEN LightWord(p, 4)
    ELSE IF roundedMinutes = 30 THEN LightWord(p, 1)
    ELSE p

\* The if / else-if chain over the specific minute patterns.
MinuteWords(p, roundedMinutes) ==
    IF roundedMinutes = 5 THEN LightWord(p, 5)
    ELSE IF roundedMinutes = 10 THEN LightWord(p, 2)
    ELSE IF roundedMinutes = 15 THEN LightWord(p, 3)
    ELSE IF roundedMinutes = 20 THEN LightWord(p, 4)
    ELSE IF roundedMinutes = 25 THEN LightWord(LightWord(p, 4), 5)
    ELSE IF roundedMinutes = 30 THEN LightWord(p, 1)
    ELSE p

\* if (roundedMinutes > 0) { PAST or TO; minute words }
DisplayMinutes(p, roundedMinutes) ==
    IF roundedMinutes > 0
    THEN LET q == PastOrTo(p, roundedMinutes)
         IN  [p |-> MinuteWords(q.p, q.roundedMinutes),
              roundedMinutes |-> q.roundedMinutes]
    ELSE [p |-> p, roundedMinutes |-> roundedMinutes]

\* switch (hours) without a default: for hours outside 1..12 hourWordIndex is
\* read uninitialized, modelled as any row of the table.
HourWordIndexOf(hours) ==
    IF hours \in 1..12
    THEN {<<9, 11, 10, 12, 13, 14, 15, 16, 17, 18, 19, 20>>[hours]}
    ELSE 0..21

\* Variant of DisplayOClock: O'CLOCK without the test.
DisplayOClockAlways(p, roundedMinutes) == LightWord(p, 21)

\* if (roundedMinutes == 0) light O'CLOCK
DisplayOClock(p, roundedMinutes) ==
    IF roundedMinutes = 0 THEN LightWord(p, 21) ELSE p

\* The writes of the repaint branch from fill_solid to the O'CLOCK test, for
\* the carried roundedMinutes and the hourWordIndex the switch produced.
Paint(roundedMinutes, hwi) ==
    LET p0 == FillSolidBlack([leds |-> leds, writes |-> 0])
        p1 == LightWord(p0, 0)
        m  == DisplayMinutes(p1, roundedMinutes)
        p2 == LightWord(m.p, hwi)
    IN  DisplayOClock(p2, m.roundedMinutes)

\* hours as it reaches the switch
SwitchHours(hours, roundedMinutes) ==
    NextHourIfTo(Hour12(hours), roundedMinutes)

(* ------------------------------------------------------------------ *)
(* showProgress and setup                                             *)
(* ------------------------------------------------------------------ *)

\* showProgress(step): the progress number only, for 0 <= step < 6
showProgress(p, step) ==
    IF step >= 0 /\ step < 6
    THEN LightWord(FillSolidBlack(p), PROGRESS_NUMBERS[step])
    ELSE p

RECURSIVE ShowAll(_, _)
ShowAll(p, steps) ==
    IF steps = <<>> THEN p
    ELSE ShowAll(showProgress(p, Head(steps)), Tail(steps))

\* The showProgress calls of setup(): 0, 1, 2, and with WiFi connected 3, one
\* call per NTP sync attempt (4, 5, 6) and the final 5.
SetupSteps(connected, attempts) ==
    IF connected
    THEN <<0, 1, 2, 3>> \o [k \in 1..attempts |-> 3 + k] \o <<5>>
    ELSE <<0, 1, 2>>

(* ------------------------------------------------------------------ *)
(* Actions                                                            *)
(* ------------------------------------------------------------------ *)

\* A string is modelled as the sequence of its characters.
\* #define DEFAULT_TIMEZONE / Australia.setLocation("Australia/Sydney")
DEFAULT_LOCATION == <<"A", "u", "s", "t", "r", "a", "l", "i", "a", "/", "S", "y", "d", "n", "e", "y">>

\* Australia.now() at millis() = ms: the local time at power-on plus the
\* seconds since.
AustraliaNow(ms) == 60 * BootTick + (ms \div 1000)

\* The delays of testLEDs(): 64 * 25 ms and 250 ms.
TestLedsMillis == NUM_LEDS * 25 + 250

Times == {60 * k : k \in 0..MaxTick}

\* What getTime() can return one loop pass later: the same minute (network
\* time, one second on), the next minute (simulated time), a correction of
\* five minutes, and a shift of one or twelve hours (a new timezone).
Advances == {0, 60, 300, 3600, 43200}

\* The times the next displayTime call can be given after a call with prev
\* (-1: no call yet, any time of the day).
NextTimes(prev) ==
    IF prev = -1
    THEN Times
    ELSE {(prev + d) % (60 * (MaxTick + 1)) : d \in Advances}

\* The lit LEDs of a buffer.
LitOf(l) == {i \in 0..(NUM_LEDS - 1) : l[i] = "White"}

\* The frames displayTime paints for (h, m) when it repaints: one per value
\* the hour switch can leave in hourWordIndex.
Frames(h, m) ==
    LET c == Carry(h, RoundToFive(m))
    IN  {LitOf(Paint(c.roundedMinutes, hwi).leds) :
            hwi \in HourWordIndexOf(SwitchHours(c.hours, c.roundedMinutes))}

\* The state before setup(): zero-initialized globals, the statics of
\* displayTime and the member initializers of BrightnessSettings.
Init ==
    /\ leds = [i \in 0..(NUM_LEDS - 1) |-> "Black"]
    /\ lastHour = -1
    /\ lastMinute = -1
    /\ op = "init"
    /\ localTime = -1
    /\ arg = <<-1, -1>>
    /\ rounded = -1
    /\ hourWordIndex = -1
    /\ ledWrites = 0
    /\ flushed = FALSE
    /\ wifi = FALSE
    /\ ota = "off"
    /\ nowMillis = 0
    /\ lastUpdate = 0
    /\ simulatedTime = 0
    /\ lastBrightnessCheck = 0
    /\ brightness = 255
    /\ settings = [darkBrightness |-> 5, lightBrightness |-> 25, threshold |-> 2600]
    /\ location = <<>>
    /\ httpStatus = 0
    /\ millisBase = -1
    /\ simBase = -1

\* setup(): the boot progress frames (testLEDs between steps 0 and 1 ends
\* with an all-black buffer that showProgress(1) repaints), brightness 50,
\* OTA set up when WiFi is connected, and on a successful NTP sync the
\* location (setLocation's result is not looked at; it is taken to succeed)
\* and simulatedTime = Australia.now().  millis() afterwards: the
\* delays of testLEDs, and with WiFi the final delay(1000).
Setup ==
    /\ op = "init"
    /\ \E connected \in BOOLEAN, attempts \in 1..3, synced \in BOOLEAN :
          LET p == ShowAll([leds |-> leds, writes |-> 0],
                           SetupSteps(connected, attempts))
          IN  /\ leds' = p.leds
              /\ ledWrites' = p.writes
              /\ wifi' = connected
              /\ ota' = IF connected THEN "idle" ELSE "off"
              /\ nowMillis' = TestLedsMillis + (IF connected THEN 1000 ELSE 0)
              /\ IF connected /\ synced
                 THEN /\ location' = DEFAULT_LOCATION
                      /\ simulatedTime' = AustraliaNow(TestLedsMillis)
                 ELSE UNCHANGED <<location, simulatedTime>>
    /\ brightness' = 50
    /\ flushed' = TRUE
    /\ op' = "setup"
    /\ UNCHANGED <<lastHour, lastMinute, localTime, arg, rounded, hourWordIndex,
                   lastUpdate, lastBrightnessCheck, settings, httpStatus,
                   millisBase, simBase>>

\* displayTime from line 596 on, for the hours and minutes read on lines
\* 593-594; shown tells whether the operation has called FastLED.show()
\* before it.
DisplayBody(hours, minutes, shown) ==
    LET r == RoundToFive(minutes)
        c == Carry(hours, r)
    IN  /\ arg' = <<hours, minutes>>
        /\ rounded' = r
        /\ IF TimeChanged(c.hours, c.roundedMinutes, lastHour, lastMinute)
           THEN /\ lastHour' = c.hours
                /\ lastMinute' = c.roundedMinutes
                /\ \E hwi \in HourWordIndexOf(SwitchHours(c.hours, c.roundedMinutes)) :
                      LET p == Paint(c.roundedMinutes, hwi)
                      IN  /\ leds' = p.leds
                          /\ ledWrites' = p.writes
                          /\ hourWordIndex' = hwi
                /\ flushed' = TRUE
           ELSE /\ UNCHANGED <<lastHour, lastMinute, leds>>
                /\ hourWordIndex' = -1
                /\ ledWrites' = 0
                /\ flushed' = shown

\* displayTime(localTime)
DisplayTime(t) ==
    /\ op # "init"
    /\ DisplayBody(hour(t), minute(t), FALSE)
    /\ localTime' = t
    /\ op' = "displayTime"
    /\ UNCHANGED <<wifi, ota, clockVars, webVars, millisBase, simBase>>

\* One pass of loop() from displayTime(getTime()) on.
Next ==
    \/ Setup
    \/ \E t \in NextTimes(localTime) : DisplayTime(t)

Spec == Init /\ [][Next]_vars

(* ------------------------------------------------------------------ *)
(* The renderer under a clock that breaks its contract                *)
(* ------------------------------------------------------------------ *)

\* The values lines 593-594 are given here: the late hours and minutes of
\* the valid range and the values just past it.  hour() and minute() return
\* unsigned values, so none is negative.
RawHours == 22..MaxRawHour
RawMinutes == 48..MaxRawMinute

\* displayTime with hours and minutes as a faulty clock would deliver them;
\* no time_t stands behind such a pair, localTime is left alone.
RenderRaw(hours, minutes) ==
    /\ op # "init"
    /\ DisplayBody(hours, minutes, FALSE)
    /\ op' = "displayTime"
    /\ UNCHANGED <<localTime, wifi, ota, clockVars, webVars, millisBase, simBase>>

NextRaw ==
    \/ Setup
    \/ \E hours \in RawHours, minutes \in RawMinutes : RenderRaw(hours, minutes)

SpecRaw == Init /\ [][NextRaw]_vars

(* ------------------------------------------------------------------ *)
(* loop(), getTime, updateBrightness and the OTA callbacks            *)
(* ------------------------------------------------------------------ *)

\* a - b on unsigned long: both are readings of millis(), a not before b,
\* and millis() stays far below 2^32 up to MaxMillis, so nothing wraps.
UnsignedDiff(a, b) == a - b

\* readLightLevel() returns the mean of LIGHT_SAMPLES reads of a 12-bit ADC.
LightLevels == {0, 4095}

\* updateBrightness(): the brightness chosen for a light level;
\* FastLED.setBrightness takes a uint8_t.
NewBrightness(level, st) ==
    (IF level < st.threshold THEN st.darkBrightness ELSE st.lightBrightness) % 256

\* getTime() called at millis() = cm: the time returned and the new
\* lastUpdate and simulatedTime.
GetTime(connected, cm, lu, sim) ==
    IF ~connected
    THEN IF UnsignedDiff(cm, lu) >= 1000
         THEN [time |-> sim + 60, lastUpdate |-> cm, simulatedTime |-> sim + 60]
         ELSE [time |-> sim, lastUpdate |-> lu, simulatedTime |-> sim]
    ELSE [time |-> AustraliaNow(cm), lastUpdate |-> lu, simulatedTime |-> sim]

\* One pass of loop() apart from the callbacks ArduinoOTA.handle() and
\* wm.process() dispatch: the brightness check (readLightLevel delays
\* LIGHT_SAMPLES * 10 ms), displayTime(getTime()) and delay(1000).
LoopPass(level) ==
    LET currentMillis == nowMillis
        check == UnsignedDiff(currentMillis, lastBrightnessCheck) >= BRIGHTNESS_CHECK_INTERVAL
        cm == IF check THEN currentMillis + LIGHT_SAMPLES * 10 ELSE currentMillis
        g == GetTime(wifi, cm, lastUpdate, simulatedTime)
    IN  /\ op # "init"
        /\ ota # "busy"
        /\ cm + 1000 <= MaxMillis
        /\ brightness' = IF check THEN NewBrightness(level, settings) ELSE brightness
        /\ lastBrightnessCheck' = IF check THEN currentMillis ELSE lastBrightnessCheck
        /\ lastUpdate' = g.lastUpdate
        /\ simulatedTime' = g.simulatedTime
        /\ DisplayBody(hour(g.time), minute(g.time), check)
        /\ localTime' = g.time
        /\ nowMillis' = cm + 1000
        /\ IF wifi
           THEN millisBase' = -1 /\ simBase' = -1
           ELSE IF millisBase = -1
                THEN millisBase' = cm /\ simBase' = g.time
                ELSE UNCHANGED <<millisBase, simBase>>
        /\ op' = "loop"
        /\ UNCHANGED <<wifi, ota, settings, location, httpStatus>>

\* The network comes or goes between two passes.
WifiChange ==
    /\ op # "init"
    /\ ota # "busy"
    /\ wifi' = ~wifi
    /\ op' = "wifi"
    /\ ledWrites' = 0
    /\ flushed' = FALSE
    /\ UNCHANGED <<leds, lastHour, lastMinute, localTime, arg, rounded, hourWordIndex,
                   ota, clockVars, webVars, millisBase, simBase>>

\* ArduinoOTA.onStart, dispatched by ArduinoOTA.handle() (loop calls it only
\* with WiFi connected): FastLED.clear(true) blanks the buffer and shows it.
OtaStart ==
    /\ op # "init"
    /\ wifi
    /\ ota = "idle"
    /\ leds' = [i \in 0..(NUM_LEDS - 1) |-> "Black"]
    /\ ledWrites' = NUM_LEDS
    /\ flushed' = TRUE
    /\ ota' = "busy"
    /\ op' = "otaStart"
    /\ UNCHANGED <<lastHour, lastMinute, localTime, arg, rounded, hourWordIndex,
                   wifi, clockVars, webVars, millisBase, simBase>>

\* ArduinoOTA.onError: prints the error; the update is over and loop() goes
\* on.  (A finished update reboots the device and is not followed.)
OtaError ==
    /\ ota = "busy"
    /\ ota' = "idle"
    /\ op' = "otaError"
    /\ ledWrites' = 0
    /\ flushed' = FALSE
    /\ UNCHANGED <<leds, lastHour, lastMinute, localTime, arg, rounded, hourWordIndex,
                   wifi, clockVars, webVars, millisBase, simBase>>

NextLoop ==
    \/ Setup
    \/ \E level \in LightLevels : LoopPass(level)
    \/ WifiChange
    \/ OtaStart
    \/ OtaError

SpecLoop == Init /\ [][NextLoop]_vars

(* ------------------------------------------------------------------ *)
(* POST /api/saveBrightness                                           *)
(* ------------------------------------------------------------------ *)

\* Strings are sequences of characters.
COMMON_TIMEZONES ==
    { <<"A", "f", "r", "i", "c", "a", "/", "C", "a", "i", "r", "o">>,
      <<"A", "m", "e", "r", "i", "c", "a", "/", "C", "h", "i", "c", "a", "g", "o">>,
      <<"A", "m", "e", "r", "i", "c", "a", "/", "L", "o", "s", "_", "A", "n", "g", "e", "l", "e", "s">>,
      <<"A", "m", "e", "r", "i", "c", "a", "/", "N", "e", "w", "_", "Y", "o", "r", "k">>,
      <<"A", "m", "e", "r", "i", "c", "a", "/", "T", "o", "r", "o", "n", "t", "o">>,
      <<"A", "s", "i", "a", "/", "D", "u", "b", "a", "i">>,
      <<"A", "s", "i", "a", "/", "H", "o", "n", "g", "_", "K", "o", "n", "g">>,
      <<"A", "s", "i", "a", "/", "S", "i", "n", "g", "a", "p", "o", "r", "e">>,
      <<"A", "s", "i", "a", "/", "T", "o", "k", "y", "o">>,
      <<"A", "u", "s", "t", "r", "a", "l", "i", "a", "/", "A", "d", "e", "l", "a", "i", "d", "e">>,
      <<"A", "u", "s", "t", "r", "a", "l", "i", "a", "/", "B", "r", "i", "s", "b", "a", "n", "e">>,
      <<"A", "u", "s", "t", "r", "a", "l", "i", "a", "/", "M", "e", "l", "b", "o", "u", "r", "n", "e">>,
      <<"A", "u", "s", "t", "r", "a", "l", "i", "a", "/", "P", "e", "r", "t", "h">>,
      <<"A", "u", "s", "t", "r", "a", "l", "i", "a", "/", "S", "y", "d", "n", "e", "y">>,
      <<"E", "u", "r", "o", "p", "e", "/", "A", "m", "s", "t", "e", "r", "d", "a", "m">>,
      <<"E", "u", "r", "o", "p", "e", "/", "B", "e", "r", "l", "i", "n">>,
      <<"E", "u", "r", "o", "p", "e", "/", "L", "o", "n", "d", "o", "n">>,
      <<"E", "u", "r", "o", "p", "e", "/", "P", "a", "r", "i", "s">>,
      <<"P", "a", "c", "i", "f", "i", "c", "/", "A", "u", "c", "k", "l", "a", "n", "d">> }

\* tz.indexOf(c) != -1
Contains(str, c) == \E i \in 1..Len(str) : str[i] = c

isValidTimezone(tz) ==
    IF tz \in COMMON_TIMEZONES THEN TRUE
    ELSE IF ~Contains(tz, "/") THEN FALSE
    ELSE IF Len(tz) < 7 THEN FALSE
    ELSE IF Contains(tz, " ") THEN FALSE
    ELSE TRUE

Digits == <<"0", "1", "2", "3", "4", "5", "6", "7", "8", "9">>

IsDigit(c) == \E d \in 1..10 : Digits[d] = c

DigitOf(c) == (CHOOSE d \in 1..10 : Digits[d] = c) - 1

RECURSIVE Atol(_, _)
\* The value of the leading digits of str, acc being the value so far.
Atol(str, acc) ==
    IF str = <<>> \/ ~IsDigit(Head(str))
    THEN acc
    ELSE Atol(Tail(str), 10 * acc + DigitOf(Head(str)))

RECURSIVE toInt(_)
\* String::toInt(): leading blanks are skipped, a sign is read, then the
\* leading digits; a string without them gives 0.
toInt(str) ==
    IF str = <<>> THEN 0
    ELSE IF Head(str) = " " THEN toInt(Tail(str))
    ELSE IF Head(str) = "-" THEN 0 - Atol(Tail(str), 0)
    ELSE IF Head(str) = "+" THEN Atol(Tail(str), 0)
    ELSE Atol(str, 0)

NumberArgNames == {"darkBrightness", "lightBrightness", "threshold"}
ArgNames == NumberArgNames \cup {"timezone"}

\* Values a request carries for a number and for the timezone.
NumberArgs == {<<"9">>, <<"x">>}
TimezoneArgs ==
    { <<"E", "u", "r", "o", "p", "e", "/", "P", "a", "r", "i", "s">>,
      <<"U", "S", "/", "E", "a", "s", "t">>,
      <<"b", "a", "d">>,
      <<"a", "/", "b">>,
      <<"N", "e", "w", " ", "Y", "o", "r", "k", "/", "x">> }

WellFormed(req) ==
    \A n \in DOMAIN req :
        IF n = "timezone" THEN req[n] \in TimezoneArgs ELSE req[n] \in NumberArgs

\* A request: the arguments it has (hasArg) with their values (arg).
Requests ==
    { req \in UNION { [names -> NumberArgs \cup TimezoneArgs] : names \in SUBSET ArgNames } :
        WellFormed(req) }

\* The handler of /api/saveBrightness (lines 435-482) for request req;
\* located is the result of Australia.setLocation and level the light
\* level updateBrightness reads.  The handler does not read millis().
SaveBrightness(req, located, level) ==
    LET hasDark == "darkBrightness" \in DOMAIN req
        hasLight == "lightBrightness" \in DOMAIN req
        hasThreshold == "threshold" \in DOMAIN req
        hasTimezone == "timezone" \in DOMAIN req
        s1 == IF hasDark
              THEN [settings EXCEPT !.darkBrightness = toInt(req["darkBrightness"])]
              ELSE settings
        s2 == IF hasLight
              THEN [s1 EXCEPT !.lightBrightness = toInt(req["lightBrightness"])]
              ELSE s1
        s3 == IF hasThreshold
              THEN [s2 EXCEPT !.threshold = toInt(req["threshold"])]
              ELSE s2
        accepted == ~hasTimezone \/ (isValidTimezone(req["timezone"]) /\ located)
        changed == hasDark \/ hasLight \/ hasThreshold \/ hasTimezone
    IN  /\ op # "init"
        /\ wifi
        /\ ota # "busy"
        /\ settings' = s3
        /\ IF accepted
           THEN /\ location' = IF hasTimezone THEN req["timezone"] ELSE location
                /\ brightness' = IF changed THEN NewBrightness(level, s3) ELSE brightness
                /\ flushed' = changed
                /\ httpStatus' = 200
           ELSE /\ UNCHANGED <<location, brightness>>
                /\ flushed' = FALSE
                /\ httpStatus' = 400
        /\ ledWrites' = 0
        /\ op' = "saveBrightness"
        /\ UNCHANGED <<leds, lastHour, lastMinute, localTime, arg, rounded, hourWordIndex,
                       wifi, ota, clockVars, millisBase, simBase>>

NextWeb ==
    \/ Setup
    \/ \E req \in Requests, located \in BOOLEAN, level \in LightLevels :
           SaveBrightness(req, located, level)

SpecWeb == Init /\ [][NextWeb]_vars

(* ------------------------------------------------------------------ *)
(* Vocabulary of the properties                                       *)
(* ------------------------------------------------------------------ *)

\* The lit LEDs of the buffer, and the LED index set of a word.
Lit == LitOf(leds)
WordLeds(w) == {WORDS[w][k] : k \in 0..(WORD_LENGTHS[w] - 1)}
WordOn(w) == WordLeds(w) \subseteq Lit
WordOff(w) == WordLeds(w) \cap Lit = {}

\* A displayTime call has returned / has returned after repainting.
Called == op = "displayTime"
Rendered == op = "displayTime" /\ flushed

\* The input of the latest call.
InHour == hour(localTime)
InMinute == minute(localTime)

\* floor((m + 2) / 5) * 5, stated without division: the multiple of 5 in
\* m-2 .. m+2.
Nearest5(m) == CHOOSE r \in {5 * k : k \in 0..12} : r <= m + 2 /\ m + 2 < r + 5

\* The time after the carry step.
CarriedMinute(m) == IF Nearest5(m) = 60 THEN 0 ELSE Nearest5(m)
CarriedHour(h, m) == IF Nearest5(m) = 60 THEN (h + 1) % 24 ELSE h

\* The hour number (1..12) whose word is shown for (h, m).
ShownHour(h, m) ==
    LET h0 == CarriedHour(h, m) % 12
        hour12 == IF h0 = 0 THEN 12 ELSE h0
    IN  IF CarriedMinute(m) <= 30 THEN hour12 ELSE (hour12 % 12) + 1

HourWords == {ONE, TWO, THREE, FOUR, FIVE, SIX, SEVEN, EIGHT, NINE, TEN, ELEVEN, TWELVE}
HourWord(n) ==
    <<ONE, TWO, THREE, FOUR, FIVE, SIX, SEVEN, EIGHT, NINE, TEN, ELEVEN, TWELVE>>[n]

\* The minute words of (h, m).
MinutePhraseWords == {HALF, TEN_MIN, QUARTER, TWENTY, FIVE_MIN, MINUTES}
MinuteWordsFor(m) ==
    LET r == CarriedMinute(m)
        d == IF r <= 30 THEN r ELSE 60 - r
    IN  CASE d = 5 -> {FIVE_MIN}
          [] d = 10 -> {TEN_MIN}
          [] d = 15 -> {QUARTER}
          [] d = 20 -> {TWENTY}
          [] d = 25 -> {TWENTY, FIVE_MIN}
          [] d = 30 -> {HALF}
          [] OTHER -> {}

\* PAST or TO for (h, m).
PastToFor(m) ==
    LET r == CarriedMinute(m)
    IN  IF r = 0 THEN {} ELSE IF r <= 30 THEN {PAST} ELSE {TO}

\* All the words included for (h, m).
IncludedWords(h, m) ==
    {IT_IS} \cup MinuteWordsFor(m) \cup PastToFor(m) \cup {HourWord(ShownHour(h, m))}
        \cup (IF CarriedMinute(m) = 0 THEN {OCLOCK} ELSE {})

(* ------------------------------------------------------------------ *)
(* Properties                                                         *)
(* ------------------------------------------------------------------ *)

\* C1: for every minute 0..59 the rounded minute displayTime computes is
\* floor((minute + 2) / 5) * 5, a member of {0, 5, ..., 60}; minutes 0..2
\* give 0, minute 3 gives 5, minutes 58 and 59 give 60 (before the carry).
C1_RoundToFive ==
    Called =>
        /\ rounded \in {5 * k : k \in 0..12}
        /\ rounded <= InMinute + 2 /\ InMinute + 2 < rounded + 5
        /\ rounded = Nearest5(InMinute)
        /\ (InMinute \in 0..2 => rounded = 0)
        /\ (InMinute = 3 => rounded = 5)
        /\ (InMinute \in 58..59 => rounded = 60)

C1_Witness == Called /\ InMinute = 58 /\ rounded = 60

\* C2: for minute 58 or 59 the call works with rounded minute 0 and hour
\* (hour + 1) mod 24, and the frame it renders is the frame of
\* ((hour + 1) mod 24, 0); for hour 23 that is TWELVE + O'CLOCK without
\* PAST and TO.
C2_HourCarry ==
    (Called /\ InMinute \in {58, 59}) =>
        /\ lastMinute = 0
        /\ lastHour = (InHour + 1) % 24
        /\ Rendered =>
              /\ Frames((InHour + 1) % 24, 0) = {Lit}
              /\ InHour = 23 =>
                    /\ lastHour = 0
                    /\ WordOn(TWELVE) /\ WordOn(OCLOCK)
                    /\ WordOff(PAST) /\ WordOff(TO)

C2_Witness ==
    /\ Rendered /\ InHour = 23 /\ InMinute = 58
    /\ lastHour = 0 /\ lastMinute = 0 /\ WordOn(TWELVE) /\ WordOn(OCLOCK)

\* C3: the rendered frame has exactly one hour word: hour12 of the carried
\* hour when the rounded minute is at most 30, the following hour otherwise.
C3_OneHourWord ==
    Rendered =>
        \A w \in HourWords :
            IF w = HourWord(ShownHour(InHour, InMinute)) THEN WordOn(w) ELSE WordOff(w)

C3_Witness ==
    /\ Rendered /\ InHour = 14 /\ InMinute = 47
    /\ WordOn(THREE) /\ WordOff(TWO)

\* C4: the lit minute words are exactly those of m = rounded (at most 30) or
\* 60 - rounded (above 30); none of HALF, TEN_MIN, QUARTER, TWENTY, FIVE_MIN,
\* MINUTES is lit when the rounded minute is 0.
C4_MinuteWords ==
    Rendered =>
        \A w \in MinutePhraseWords :
            IF w \in MinuteWordsFor(InMinute) THEN WordOn(w) ELSE WordOff(w)

C4_Witness ==
    /\ Rendered /\ InHour = 2 /\ InMinute = 33
    /\ WordOn(TWENTY) /\ WordOn(FIVE_MIN) /\ WordOff(HALF)

\* C5: the rendered frame has PAST (and not TO) when 0 < rounded <= 30, TO
\* (and not PAST) when rounded > 30, and neither when rounded is 0.
C5_PastOrTo ==
    Rendered =>
        LET r == CarriedMinute(InMinute)
        IN  /\ r = 0 => WordOff(PAST) /\ WordOff(TO)
            /\ (0 < r /\ r <= 30) => WordOn(PAST) /\ WordOff(TO)
            /\ r > 30 => WordOn(TO) /\ WordOff(PAST)

C5_Witness ==
    Rendered /\ CarriedMinute(InMinute) = 30 /\ WordOn(PAST) /\ WordOff(TO)

\* C6: the rendered frame always has IT_IS, and has O'CLOCK exactly when
\* the rounded minute after the carry is 0 (also in the TO branch, which
\* overwrites the rounded minute).
C6_ItIsAndOClock ==
    Rendered =>
        /\ WordOn(IT_IS)
        /\ IF CarriedMinute(InMinute) = 0 THEN WordOn(OCLOCK) ELSE WordOff(OCLOCK)
        /\ (CarriedMinute(InMinute) = 0) = (InMinute \in (0..2) \cup (58..59))

C6_Witness ==
    Rendered /\ CarriedMinute(InMinute) = 55 /\ WordOn(TO) /\ WordOff(OCLOCK) /\ WordOn(IT_IS)

\* C7: after a repainting call the lit LEDs are exactly the union of the LED
\* index sets of the included words: nothing else, no rest of an earlier
\* frame and no zero padding of the table, is lit.
C7_ExactFrame ==
    Rendered =>
        Lit = UNION {WordLeds(w) : w \in IncludedWords(InHour, InMinute)}

C7_Witness ==
    /\ Rendered /\ InHour = 9 /\ InMinute = 12
    /\ Lit = WordLeds(IT_IS) \cup WordLeds(TEN_MIN) \cup WordLeds(PAST) \cup WordLeds(NINE)
    /\ 0 \notin Lit

\* C8: a call whose (carried hour, rounded minute) pair is that of the call
\* before writes no LED, does not flush and keeps lastHour / lastMinute; a
\* call with another pair repaints, flushes and stores its pair.
C8_ChangeDetection ==
    [][(localTime # -1 /\ op' = "displayTime") =>
          LET h == CarriedHour(hour(localTime'), minute(localTime'))
              m == CarriedMinute(minute(localTime'))
          IN  IF /\ h = CarriedHour(InHour, InMinute)
                 /\ m = CarriedMinute(InMinute)
              THEN /\ ledWrites' = 0
                   /\ ~flushed'
                   /\ leds' = leds
                   /\ lastHour' = lastHour /\ lastMinute' = lastMinute
              ELSE /\ ledWrites' > 0
                   /\ flushed'
                   /\ lastHour' = h /\ lastMinute' = m]_vars

C8_Witness ==
    /\ Called /\ ~flushed /\ ledWrites = 0
    /\ lastHour = CarriedHour(InHour, InMinute)
    /\ lastMinute = CarriedMinute(InMinute)
    /\ InMinute = 4

\* C9: the frame rendered for (h, minute) is the frame of (h + 12, minute),
\* hours taken modulo 24; (0, 0) and (12, 0) show TWELVE and O'CLOCK without
\* PAST and TO.
C9_NoonMidnight ==
    Rendered =>
        /\ Frames((InHour + 12) % 24, InMinute) = {Lit}
        /\ (InHour \in {0, 12} /\ InMinute = 0) =>
              /\ WordOn(TWELVE) /\ WordOn(OCLOCK)
              /\ WordOff(PAST) /\ WordOff(TO)

C9_Witness ==
    Rendered /\ InHour = 0 /\ InMinute = 0 /\ WordOn(TWELVE) /\ WordOn(OCLOCK)

C12_WordMapValid ==
    /\ Len(WordInitializers) = 22
    /\ Len(WordLengthRow) = 22
    /\ \A w \in 0..21 :
          /\ WORD_LENGTHS[w] = Len(WordInitializers[w + 1])
          /\ WordLeds(w) \subseteq 0..(NUM_LEDS - 1)
          /\ \A k \in 1..Len(WordInitializers[w + 1]) :
                WordInitializers[w + 1][k] \in 0..(NUM_LEDS - 1)
    /\ Rendered =>
          \A w1, w2 \in IncludedWords(InHour, InMinute) :
              w1 # w2 => WordLeds(w1) \cap WordLeds(w2) = {}

C12_Witness ==
    /\ Rendered /\ InHour = 11 /\ InMinute = 45
    /\ WordOn(QUARTER) /\ WordOn(TO) /\ WordOn(TWELVE)
    /\ WordLeds(TO) \cap WordLeds(TWELVE) = {}

\* C13: with a valid time the hours that reach the hour switch are in 1..12
\* and hourWordIndex gets the row (9..20) of that hour's word.
C13_SwitchInRange ==
    Rendered =>
        /\ SwitchHours(lastHour, lastMinute) \in 1..12
        /\ hourWordIndex \in 9..20
        /\ hourWordIndex = HourWord(SwitchHours(lastHour, lastMinute))

C13_Witness ==
    Rendered /\ InHour = 12 /\ InMinute = 45 /\ hourWordIndex = ONE

\* t2 is one minute after t1, modulo the day.
OneMinuteOn(t1, t2) ==
    hour(t2) * 60 + minute(t2) = (hour(t1) * 60 + minute(t1) + 1) % 1440

\* C16: the first call after boot repaints; when the time of a call is one
\* minute after that of the call before, the call repaints exactly when its
\* minute is 3 modulo 5, also across the hour and midnight.
C16_RepaintCadence ==
    [][op' = "displayTime" =>
          IF localTime = -1
          THEN flushed'
          ELSE OneMinuteOn(localTime, localTime') =>
                  (flushed' <=> minute(localTime') % 5 = 3)]_vars

C16_Witness ==
    /\ Called /\ flushed /\ InHour = 23 /\ InMinute = 58
    /\ lastHour = 0 /\ lastMinute = 0

\* The latest call was given an hour outside 0..23 or a minute outside 0..59.
OutOfRange == arg[1] \notin 0..23 \/ arg[2] \notin 0..59

C14_MinutePerSecond ==
    millisBase # -1 =>
        simulatedTime - simBase = 60 * ((lastUpdate - millisBase) \div 1000)

\* C15: when displayTime(t) has returned in a pass of loop(), the LED buffer
\* shows the frame of (hour(t), minute(t)) and the cached pair is the one of
\* that frame.
C15_CacheDescribesBuffer ==
    op = "loop" =>
        /\ lastHour = CarriedHour(InHour, InMinute)
        /\ lastMinute = CarriedMinute(InMinute)
        /\ Lit = UNION {WordLeds(w) : w \in IncludedWords(InHour, InMinute)}

\* C17: a POST /api/saveBrightness answered with 400 leaves
\* brightnessSettings and the LED brightness as they were.
C17_RejectedChangesNothing ==
    [][(op' = "saveBrightness" /\ httpStatus' = 400) =>
           (settings' = settings /\ brightness' = brightness)]_vars

====
